---- MODULE Spec2Model ----
(***************************************************************************)
(* Real-time price synchronisation of criptocap: the streaming feed client *)
(* (hook useCryptoPrices), the durable cache (CryptoCacheService) and the  *)
(* merge/derivation layer (component CryptoList).                          *)
(*                                                                         *)
(* Conventions.  Prices are integers in cents ("67000" is 6700000); NaN is *)
(* the number -1, which no price takes.  A percentage is the exact         *)
(* rational [num, den].  A JavaScript object used as a map is a function   *)
(* whose DOMAIN is the set of its keys.  The JSON value null is the string *)
(* JSNull, distinct from the JSON string "null".                           *)
(***************************************************************************)
EXTENDS Integers, Sequences, FiniteSets, TLC

VARIABLES
    \* hook useCryptoPrices
    prices, isConnected, error, invalidAssets, errorCount,
    sockets, wsRef, timers, reconnectTimeoutRef, nextHandle, mounted,
    \* CryptoCacheService and the storage under it
    db, connections, storage, priceStore, cryptoStore,
    \* component CryptoList
    customCryptos, hiddenCryptos, expandedId, previousPrices, priceHistory,
    \* asynchronous work in flight
    hookLoad, listLoad, tasks,
    \* environment: the wall clock, and what the feed has sent so far
    clock, recentValues, threeInARow, feedFirst,
    \* the number of frames received whose payload was not an object, and the
    \* value each asset was sent last, and the frame received last
    malformed, lastSent, lastFrame,
    \* calls made on the cache service by a client other than the components,
    \* their results, and the savePrice calls completed for each asset
    calls, results, recorded,
    \* hook useCryptoSearch: its state, the requests awaiting the catalog's
    \* response, and the calls of searchCrypto that have returned
    result, fetches, returned

hookVars  == <<prices, isConnected, error, invalidAssets, errorCount>>
connVars  == <<sockets, wsRef, timers, reconnectTimeoutRef, nextHandle>>
cacheVars == <<db, connections, storage, priceStore, cryptoStore>>
listVars  == <<customCryptos, hiddenCryptos, expandedId, previousPrices, priceHistory>>
asyncVars == <<hookLoad, listLoad, tasks>>
feedVars  == <<recentValues, threeInARow, feedFirst, malformed, lastSent, lastFrame>>
apiVars   == <<calls, results, recorded>>
searchVars == <<result, fetches, returned>>
vars == <<hookVars, connVars, mounted, cacheVars, listVars, asyncVars, clock, feedVars,
          apiVars, searchVars>>

----------------------------------------------------------------------------
(* Bounds of the model *)

MaxHandles == 4     \* sockets and timers ever created
MaxClock   == 1     \* readings of Date.now()
MaxTally   == 4     \* consecutive invalid values counted for one asset
MaxTasks   == 1     \* user actions awaiting the cache at one time
MaxCustom  == 1     \* user-added assets, counting those being added
MaxCalls   == 2     \* calls made directly on the cache service
MaxMalformed == 2   \* frames whose payload is not an object
MaxSearches == 2    \* calls of searchCrypto

(* Program constants *)

ERROR_THRESHOLD == 3
HISTORY_WINDOW  == 10
NaN             == -1
DEFAULT_MAX_AGE == 24 * 60 * 60 * 1000

----------------------------------------------------------------------------
(* Maps *)

EmptyMap == [k \in {} |-> 0]

Has(m, k) == k \in DOMAIN m

Without(m, k) == [x \in DOMAIN m \ {k} |-> m[x]]

\* { ...a, ...b }
Spread(a, b) == [k \in DOMAIN a \cup DOMAIN b |-> IF k \in DOMAIN b THEN b[k] ELSE a[k]]

Put(m, k, v) == [x \in DOMAIN m \cup {k} |-> IF x = k THEN v ELSE m[x]]

Range(s) == {s[i] : i \in DOMAIN s}

Last(s) == s[Len(s)]

----------------------------------------------------------------------------
(* Values of the feed *)

JSNull == "<null>"

NumericValues == {"67000", "67000.0", "67670"}
RawValues == {JSNull, "null", "undefined", "abc"} \cup NumericValues

ParseFloat(v) ==
    CASE v = "67000"   -> 6700000
      [] v = "67000.0" -> 6700000
      [] v = "67670"   -> 6767000
      [] OTHER         -> NaN

\* Number.prototype.toString, on the prices the cache can hold
NumToString(n) ==
    CASE n = 6700000 -> "67000"
      [] n = 6767000 -> "67670"
      [] OTHER       -> "NaN"

\* JavaScript truthiness of a number and of a string
TruthyNum(n) == n # NaN /\ n # 0
TruthyStr(s) == s # ""

\* a !== b on numbers
StrictNeq(a, b) == a = NaN \/ b = NaN \/ a # b

IsInvalidValue(v) == v \in {JSNull, "null", "undefined"}

ASSET_ID_MAP_Identity(key) == key

ASSET_ID_MAP(key) == IF key = "binance-coin" THEN "binancecoin" ELSE key

defaultAssetIds == <<"bitcoin", "ethereum", "binance-coin", "cardano", "solana">>

\* the identifier list of WS_URL
WsUrl(custom) == defaultAssetIds \o [i \in 1..Len(custom) |-> custom[i].id]

----------------------------------------------------------------------------
(* Connection lifecycle of useCryptoPrices.  A socket is [h, url, state,   *)
(* live]: its handle, the identifier list of the WS_URL its connect()      *)
(* closed over, its readyState, and whether the effect instance that owns  *)
(* it has not been cleaned up.  A closed socket is dropped from sockets.   *)
(* A timer is [h, url, live]: a pending setTimeout of that connect().      *)

NoError == "null"

\* a state setter of a component that may have been unmounted
SetState(new, old) == IF mounted THEN new ELSE old

\* WebSocket.close()
CloseSocket(ss, h) ==
    {IF s.h = h /\ s.state \in {"CONNECTING", "OPEN"}
        THEN [s EXCEPT !.state = "CLOSING"] ELSE s : s \in ss}

\* clearTimeout(reconnectTimeoutRef.current)
ClearTimeout(ts, h) == {t \in ts : t.h # h}

\* the effect instance that owns these sockets or timers is cleaned up
Retire(xs) == {[x EXCEPT !.live = FALSE] : x \in xs}

\* connect(): new WebSocket(WS_URL) either returns a socket or throws
connect(ss, ts, url, live, ok) ==
    IF ok
    THEN /\ nextHandle <= MaxHandles
         /\ sockets' = ss \cup {[h |-> nextHandle, url |-> url,
                                 state |-> "CONNECTING", live |-> live]}
         /\ wsRef' = nextHandle
         /\ nextHandle' = nextHandle + 1
         /\ timers' = ts
         /\ UNCHANGED <<error, reconnectTimeoutRef>>
    ELSE /\ sockets' = ss
         /\ timers' = ts
         /\ error' = SetState("Erro ao criar conexao WebSocket", error)
         /\ UNCHANGED <<wsRef, nextHandle, reconnectTimeoutRef>>

\* the connect effect, run after a render in which the tracked list is newCustom:
\* nothing when WS_URL is the same string, else the cleanup and a connect()
ConnectEffect(newCustom, ok) ==
    IF WsUrl(newCustom) = WsUrl(customCryptos) \/ ~mounted
    THEN ok /\ UNCHANGED <<connVars, error>>
    ELSE connect(Retire(CloseSocket(sockets, wsRef)),
                 Retire(ClearTimeout(timers, reconnectTimeoutRef)),
                 WsUrl(newCustom), TRUE, ok)

\* ws.onopen
WsOpen(s) ==
    /\ s.state = "CONNECTING"
    /\ sockets' = (sockets \ {s}) \cup {[s EXCEPT !.state = "OPEN"]}
    /\ isConnected' = SetState(TRUE, isConnected)
    /\ error' = SetState(NoError, error)
    /\ UNCHANGED <<prices, invalidAssets, errorCount, wsRef, timers,
                   reconnectTimeoutRef, nextHandle, mounted, cacheVars, listVars,
                   asyncVars, clock, feedVars, apiVars, searchVars>>

\* ws.onerror: the transport failed; the browser then closes the socket
WsError(s) ==
    /\ s.state \in {"CONNECTING", "OPEN"}
    /\ sockets' = (sockets \ {s}) \cup {[s EXCEPT !.state = "CLOSING"]}
    /\ error' = SetState("Erro na conexao WebSocket", error)
    /\ isConnected' = SetState(FALSE, isConnected)
    /\ UNCHANGED <<prices, invalidAssets, errorCount, wsRef, timers,
                   reconnectTimeoutRef, nextHandle, mounted, cacheVars, listVars,
                   asyncVars, clock, feedVars, apiVars, searchVars>>

\* ws.onclose, with the reconnect callback it arms
WsClose(s) ==
    /\ s.state \in {"OPEN", "CLOSING"}
    /\ nextHandle <= MaxHandles
    /\ sockets' = sockets \ {s}
    /\ isConnected' = SetState(FALSE, isConnected)
    /\ timers' = timers \cup {[h |-> nextHandle, url |-> s.url, live |-> s.live]}
    /\ reconnectTimeoutRef' = nextHandle
    /\ nextHandle' = nextHandle + 1
    /\ UNCHANGED <<prices, error, invalidAssets, errorCount, wsRef, mounted,
                   cacheVars, listVars, asyncVars, clock, feedVars, apiVars, searchVars>>

\* the reconnect callback fires: connect() of the closure that armed it
TimerFire(t, ok) ==
    /\ connect(sockets, timers \ {t}, t.url, t.live, ok)
    /\ UNCHANGED <<prices, isConnected, invalidAssets, errorCount, mounted,
                   cacheVars, listVars, asyncVars, clock, feedVars, apiVars, searchVars>>

\* the component unmounts: the effect's cleanup, and no effect runs again
Unmount ==
    /\ mounted
    /\ mounted' = FALSE
    /\ timers' = Retire(ClearTimeout(timers, reconnectTimeoutRef))
    /\ sockets' = Retire(CloseSocket(sockets, wsRef))
    /\ UNCHANGED <<hookVars, wsRef, reconnectTimeoutRef, nextHandle, cacheVars,
                   listVars, asyncVars, clock, feedVars, apiVars, searchVars>>

----------------------------------------------------------------------------
(* Static catalog and the derived view of CryptoList *)

Pct(n, d) == [num |-> n, den |-> d]

\* equality of two exact rationals
PctEq(a, b) ==
    IF a.den = b.den THEN a.num = b.num ELSE a.num * b.den = b.num * a.den

cryptoData == <<
    [id |-> "bitcoin",     price |-> 6723450, change24h |-> Pct(245, 100),  rank |-> 1],
    [id |-> "ethereum",    price |-> 345678,  change24h |-> Pct(-123, 100), rank |-> 2],
    [id |-> "binancecoin", price |-> 58923,   change24h |-> Pct(367, 100),  rank |-> 3],
    [id |-> "cardano",     price |-> 56,      change24h |-> Pct(512, 100),  rank |-> 4],
    [id |-> "solana",      price |-> 14289,   change24h |-> Pct(-234, 100), rank |-> 5] >>

StaticIds == {cryptoData[i].id : i \in DOMAIN cryptoData}

\* identifiers the catalog search can return for a user to add
SearchIds == {"dogecoin"}

\* every identifier a store or a map of the model can be keyed by, in key order
IdOrder == <<"0", "binance-coin", "binancecoin", "bitcoin", "cardano", "dogecoin",
             "ethereum", "solana">>

\* IDBObjectStore.getAll(): the records of a store in key order
GetAll(store) ==
    LET keys == SelectSeq(IdOrder, LAMBDA k : k \in DOMAIN store)
    IN  [i \in 1..Len(keys) |-> store[keys[i]]]

IdsOf(cryptos) == {cryptos[i].id : i \in DOMAIN cryptos}

\* customCryptos.some((c) => c.id === assetId)
IsCustom(custom, assetId) == assetId \in IdsOf(custom)

\* prev.filter((c) => c.id !== assetId)
RemoveCrypto(custom, assetId) == SelectSeq(custom, LAMBDA c : c.id # assetId)

allCryptos(custom) == cryptoData \o custom

\* ((currentPrice - previousPrice) / previousPrice) * 100
ChangePercent(currentPrice, previousPrice) ==
    Pct((currentPrice - previousPrice) * 100, previousPrice)

\* array.slice(-n)
SliceLast_KeepOldest(s, n) == IF Len(s) <= n THEN s ELSE SubSeq(s, 1, n)

SliceLast_OffByOne(s, n) == IF Len(s) <= n + 1 THEN s ELSE SubSeq(s, Len(s) - n, Len(s))

SliceLast(s, n) == IF Len(s) <= n THEN s ELSE SubSeq(s, Len(s) - n + 1, Len(s))

\* array.sort((a, b) => a.timestamp - b.timestamp), a stable sort
RECURSIVE SortByTimestamp(_)
SortByTimestamp(s) ==
    IF Len(s) <= 1 THEN s
    ELSE LET rest == SortByTimestamp(Tail(s))
             before == SelectSeq(rest, LAMBDA x : x.timestamp < Head(s).timestamp)
             after  == SelectSeq(rest, LAMBDA x : x.timestamp >= Head(s).timestamp)
         IN  before \o <<Head(s)>> \o after

\* prices[id] as the merge reads it: parseFloat of a truthy entry, else null (a
\* falsy number stands for null: the code only tests the result for truthiness)
RealtimePrice(pr, id) ==
    IF Has(pr, id) /\ TruthyStr(pr[id]) THEN ParseFloat(pr[id]) ELSE 0

LastHistoryPrice(hist, id) ==
    IF Has(hist, id) /\ Len(hist[id]) > 0 THEN Last(hist[id]).price ELSE 0

\* the body of updatedCryptoData's map
Derive(crypto, pr, prev, hist) ==
    LET realtimePrice == RealtimePrice(pr, crypto.id)
        lastHistoryPrice == IF ~TruthyNum(realtimePrice)
                            THEN LastHistoryPrice(hist, crypto.id) ELSE 0
        currentPrice == IF TruthyNum(realtimePrice) THEN realtimePrice
                        ELSE lastHistoryPrice
    IN  IF TruthyNum(currentPrice)
        THEN [crypto EXCEPT !.price = currentPrice,
                            !.change24h =
                                IF Has(prev, crypto.id) /\ TruthyNum(prev[crypto.id])
                                THEN ChangePercent(currentPrice, prev[crypto.id])
                                ELSE crypto.change24h]
        ELSE crypto

updatedCryptoData ==
    LET shown == SelectSeq(allCryptos(customCryptos), LAMBDA c : c.id \notin hiddenCryptos)
    IN  [i \in 1..Len(shown) |-> Derive(shown[i], prices, previousPrices, priceHistory)]

\* the previousPrices effect: the baseline of every tracked asset that has a
\* price and no truthy baseline yet
PreviousPricesEffect_Rebaseline(pr, prev, custom) ==
    LET ids == {c \in IdsOf(allCryptos(custom)) : Has(pr, c) /\ TruthyStr(pr[c])}
    IN  IF DOMAIN pr = {} THEN prev
        ELSE Spread(prev, [c \in ids |-> ParseFloat(pr[c])])

PreviousPricesEffect(pr, prev, custom) ==
    LET ids == {c \in IdsOf(allCryptos(custom)) :
                    /\ Has(pr, c) /\ TruthyStr(pr[c])
                    /\ ~(Has(prev, c) /\ TruthyNum(prev[c]))}
    IN  IF DOMAIN pr = {} THEN prev
        ELSE Spread(prev, [c \in ids |-> ParseFloat(pr[c])])

\* the price-history effect at time now
HistoryStep(history, price, now) ==
    IF Len(history) = 0 \/ StrictNeq(price, Last(history).price)
    THEN SliceLast(Append(history, [timestamp |-> now, price |-> price]), HISTORY_WINDOW)
    ELSE history

HistoryEffect(pr, hist, now) ==
    IF DOMAIN pr = {} THEN hist
    ELSE [c \in DOMAIN hist \cup DOMAIN pr |->
            IF Has(pr, c)
            THEN HistoryStep(IF Has(hist, c) THEN hist[c] ELSE <<>>, ParseFloat(pr[c]), now)
            ELSE hist[c]]

\* historyFromCache of loadCustomCryptos
HistoryFromCache(cachedPrices) ==
    LET ids == {cachedPrices[i].id : i \in DOMAIN cachedPrices}
        of(c) == SelectSeq(cachedPrices, LAMBDA x : x.id = c)
        entries(c) == [i \in 1..Len(of(c)) |->
                        [timestamp |-> of(c)[i].timestamp, price |-> of(c)[i].price]]
    IN  [c \in ids |-> SliceLast(SortByTimestamp(entries(c)), HISTORY_WINDOW)]

----------------------------------------------------------------------------
(* ws.onmessage.  A message is the parsed object as the sequence of its    *)
(* <<key, value>> entries in Object.keys order (the keys are distinct).    *)

\* [...new Set(list)]
RECURSIVE Dedup(_)
Dedup(list) ==
    IF list = <<>> THEN <<>>
    ELSE LET init == Dedup(SubSeq(list, 1, Len(list) - 1))
         IN  IF Last(list) \in Range(init) THEN init ELSE Append(init, Last(list))

\* [...new Set([...prev, ...invalidAssetsList])]
MergeInvalid_Concat(prev, list) == prev \o list

MergeInvalid(prev, list) == Dedup(prev \o list)

\* one iteration of Object.keys(data).forEach, on the accumulated
\* [ec: errorCountRef.current, nd: normalizedData, inv: invalidAssetsList,
\*  saves: the savePrice calls made]
ProcessEntry_NoReset(acc, key, value) ==
    LET normalizedKey == ASSET_ID_MAP(key)
        n == (IF Has(acc.ec, normalizedKey) THEN acc.ec[normalizedKey] ELSE 0) + 1
    IN  IF IsInvalidValue(value)
        THEN [acc EXCEPT !.ec = Put(@, normalizedKey, n),
                         !.inv = IF n >= ERROR_THRESHOLD THEN Append(@, normalizedKey) ELSE @]
        ELSE [acc EXCEPT !.nd = Put(@, normalizedKey, value),
                         !.saves = IF ParseFloat(value) # NaN
                                   THEN Append(@, [id |-> normalizedKey,
                                                   price |-> ParseFloat(value)])
                                   ELSE @]

\* as ProcessEntry, with a valid value resetting every tally
ProcessEntry_ResetAll(acc, key, value) ==
    LET normalizedKey == ASSET_ID_MAP(key)
        n == (IF Has(acc.ec, normalizedKey) THEN acc.ec[normalizedKey] ELSE 0) + 1
    IN  IF IsInvalidValue(value)
        THEN [acc EXCEPT !.ec = Put(@, normalizedKey, n),
                         !.inv = IF n >= ERROR_THRESHOLD THEN Append(@, normalizedKey) ELSE @]
        ELSE [acc EXCEPT !.ec = [k \in DOMAIN acc.ec \cup {normalizedKey} |-> 0],
                         !.nd = Put(@, normalizedKey, value),
                         !.saves = IF ParseFloat(value) # NaN
                                   THEN Append(@, [id |-> normalizedKey,
                                                   price |-> ParseFloat(value)])
                                   ELSE @]

ProcessEntry(acc, key, value) ==
    LET normalizedKey == ASSET_ID_MAP(key)
        n == (IF Has(acc.ec, normalizedKey) THEN acc.ec[normalizedKey] ELSE 0) + 1
    IN  IF IsInvalidValue(value)
        THEN [acc EXCEPT !.ec = Put(@, normalizedKey, n),
                         !.inv = IF n >= ERROR_THRESHOLD THEN Append(@, normalizedKey) ELSE @]
        ELSE [acc EXCEPT !.ec = Put(@, normalizedKey, 0),
                         !.nd = Put(@, normalizedKey, value),
                         !.saves = IF ParseFloat(value) # NaN
                                   THEN Append(@, [id |-> normalizedKey,
                                                   price |-> ParseFloat(value)])
                                   ELSE @]

\* setPrices((prevPrices) => ({ ...prevPrices, ...normalizedData }))
MergePrices_Replace(prevPrices, normalizedData) == normalizedData

MergePrices(prevPrices, normalizedData) == Spread(prevPrices, normalizedData)

RECURSIVE ProcessMessage(_, _)
ProcessMessage(msg, acc) ==
    IF msg = <<>> THEN acc
    ELSE ProcessMessage(Tail(msg), ProcessEntry(acc, Head(msg)[1], Head(msg)[2]))

\* objectStore.put({id, price, timestamp: Date.now()}) for each savePrice call
RECURSIVE PutPrices(_, _, _)
PutPrices(store, saves, now) ==
    IF saves = <<>> THEN store
    ELSE PutPrices(Put(store, Head(saves).id,
                       [id |-> Head(saves).id, price |-> Head(saves).price,
                        timestamp |-> now]),
                   Tail(saves), now)

\* What the feed has sent, kept beside the program: for each internal
\* identifier the validity of its last three values, the identifiers that have
\* had three invalid values in a row, and the first valid value it was sent.
InternalId(key) == IF key = "binance-coin" THEN "binancecoin" ELSE key

\* the value each internal identifier was sent last
RECURSIVE SentValues(_, _)
SentValues(msg, sent) ==
    IF msg = <<>> THEN sent
    ELSE SentValues(Tail(msg), Put(sent, InternalId(Head(msg)[1]), Head(msg)[2]))

RECURSIVE ObserveFeed(_, _)
ObserveFeed(msg, g) ==
    IF msg = <<>> THEN g
    ELSE LET id == InternalId(Head(msg)[1])
             bad == Head(msg)[2] \in {JSNull, "null", "undefined"}
             seen == Append(IF Has(g.recent, id) THEN g.recent[id] ELSE <<>>, bad)
             last3 == IF Len(seen) <= 3 THEN seen ELSE SubSeq(seen, Len(seen) - 2, Len(seen))
         IN  ObserveFeed(Tail(msg),
                [recent |-> Put(g.recent, id, last3),
                 three  |-> IF last3 = <<TRUE, TRUE, TRUE>> THEN g.three \cup {id}
                            ELSE g.three,
                 first  |-> IF ~bad /\ ~Has(g.first, id)
                            THEN Put(g.first, id, Head(msg)[2]) ELSE g.first])

\* Payloads that are not an identifier-to-value object: text that is no JSON,
\* JSON null, a JSON number, a JSON string and a JSON array.
Payloads == {"{", "null", "7", "\"a\"", "[67000]"}

\* JSON.parse(event.data) throws, or Object.keys(data) throws on null
Throws(payload) == payload \in {"{", "null"}

\* the keys Object.keys(data) yields for a string or an array: its indices
IndexKeys == {"0"}

\* the entries Object.keys(data).forEach visits: none for a number, the
\* characters of a string and the elements of an array under their indices
Entries(payload) ==
    CASE payload = "\"a\""   -> <<<<"0", "a">>>>
      [] payload = "[67000]" -> <<<<"0", "67000">>>>
      [] OTHER               -> <<>>

NonObject(msg) == msg = <<>> \/ \E i \in DOMAIN msg : msg[i][1] \in IndexKeys

\* messages of one or two entries over the keys K and the values V
Messages(K, V) ==
    {<<<<k, v>>>> : k \in K, v \in V}
    \cup {<<<<k[1], v[1]>>, <<k[2], v[2]>>>> :
            k \in {x \in K \X K : x[1] # x[2]}, v \in V \X V}

----------------------------------------------------------------------------
(* Asynchronous work.  A task is a handler or effect callback suspended at *)
(* an await on the cache: [kind, id, isCustom, wasExpanded, crypto, price, *)
(* phase, outcome].  phase "init" waits for cryptoCache.init(); "issued"   *)
(* has its request on the store and waits for the result.  outcome is the  *)
(* result of that request: "ok" or "fail".                                  *)

NoCrypto == [id |-> "", price |-> 0, change24h |-> Pct(0, 1), rank |-> 0]

Task(kind, id, isCustom, wasExpanded, crypto, price, outcome) ==
    [kind |-> kind, id |-> id, isCustom |-> isCustom, wasExpanded |-> wasExpanded,
     crypto |-> crypto, price |-> price,
     phase |-> IF db = "open" THEN "issued" ELSE "init",
     outcome |-> outcome]

Outcome(ok) == IF ok THEN "ok" ELSE "fail"

\* the invalidation effect: one async callback per invalid asset, each of which
\* computes isCustom and calls deletePrice before its first await
InvalidationTasks(invalid, custom, ok) ==
    {Task("invalid", invalid[i], IsCustom(custom, invalid[i]), FALSE, NoCrypto, 0,
          Outcome(ok)) : i \in DOMAIN invalid}

\* objectStore.delete(id) for each of ids, when the request can be made now
DeletePrices(store, ids, ok) ==
    IF db = "open" /\ ok THEN [k \in DOMAIN store \ ids |-> store[k]] ELSE store

----------------------------------------------------------------------------
(* Actions of the feed *)

\* ws.onmessage on a well-formed frame, with the render and the effects that
\* follow it.  saveOk, delOk: whether the cache writes it causes succeed.
\* watch: whether the record of what the feed has sent is kept.
WsMessage(s, msg, saveOk, delOk, watch) ==
    /\ s.state = "OPEN"
    /\ LET acc == ProcessMessage(msg, [ec |-> errorCount, nd |-> EmptyMap,
                                       inv |-> <<>>, saves |-> <<>>])
           newInvalid == IF acc.inv # <<>> THEN MergeInvalid(invalidAssets, acc.inv)
                         ELSE invalidAssets
           newPrices == MergePrices(prices, acc.nd)
           g == ObserveFeed(msg, [recent |-> recentValues, three |-> threeInARow,
                                  first |-> feedFirst])
           spawn == IF mounted /\ acc.inv # <<>>
                    THEN InvalidationTasks(newInvalid, customCryptos, delOk) ELSE {}
           waiting == IF db = "open" THEN {}
                      ELSE {Task("savePrice", acc.saves[i].id, FALSE, FALSE, NoCrypto,
                                 acc.saves[i].price, Outcome(saveOk)) :
                                i \in DOMAIN acc.saves}
           stored == IF db = "open" /\ saveOk
                     THEN PutPrices(priceStore, acc.saves, clock) ELSE priceStore
       IN  /\ \A k \in DOMAIN acc.ec : acc.ec[k] <= MaxTally
           /\ acc.saves = <<>> => saveOk
           /\ spawn = {} => delOk
           /\ errorCount' = acc.ec
           /\ invalidAssets' = SetState(newInvalid, invalidAssets)
           /\ prices' = SetState(newPrices, prices)
           /\ previousPrices' =
                SetState(PreviousPricesEffect(newPrices, previousPrices, customCryptos),
                         previousPrices)
           /\ priceHistory' =
                SetState(HistoryEffect(newPrices, priceHistory, clock), priceHistory)
           /\ priceStore' = DeletePrices(stored, {t.id : t \in spawn}, delOk)
           /\ tasks' = tasks \cup waiting \cup spawn
           /\ recentValues' = IF watch THEN g.recent ELSE recentValues
           /\ threeInARow' = IF watch THEN g.three ELSE threeInARow
           /\ feedFirst' = g.first
           /\ malformed' = IF NonObject(msg) THEN malformed + 1 ELSE malformed
           /\ lastSent' = IF watch THEN SentValues(msg, lastSent) ELSE lastSent
           /\ lastFrame' = IF watch THEN SentValues(msg, EmptyMap) ELSE lastFrame
    /\ UNCHANGED <<isConnected, error, connVars, mounted, db, connections, storage, cryptoStore,
                   customCryptos, hiddenCryptos, expandedId, hookLoad, listLoad, clock, apiVars, searchVars>>

\* ws.onmessage on a frame for which the handler throws: the catch only logs
WsDropped(s, payload) ==
    /\ s.state = "OPEN"
    /\ Throws(payload)
    /\ malformed' = malformed + 1
    /\ UNCHANGED <<hookVars, connVars, mounted, cacheVars, listVars, asyncVars, clock,
                   recentValues, threeInARow, feedFirst, lastSent, lastFrame, apiVars, searchVars>>

\* Date.now() advances
Tick ==
    /\ clock < MaxClock
    /\ clock' = clock + 1
    /\ UNCHANGED <<hookVars, connVars, mounted, cacheVars, listVars, asyncVars, feedVars,
                   apiVars, searchVars>>

----------------------------------------------------------------------------
(* Startup loads *)

\* loadCachedPrices of the hook: init() settles, getAllPrices() is requested
HookLoadInit ==
    /\ hookLoad.phase = "init"
    /\ IF storage = "ok"
       THEN /\ db' = "open" /\ connections' = connections + 1
            /\ hookLoad' = [phase |-> "getAll", snap |-> GetAll(priceStore)]
       ELSE /\ UNCHANGED <<db, connections>>
            /\ hookLoad' = [hookLoad EXCEPT !.phase = "done"]
    /\ UNCHANGED <<hookVars, connVars, mounted, storage, priceStore, cryptoStore,
                   listVars, listLoad, tasks, clock, feedVars, apiVars, searchVars>>

\* priceMap of loadCachedPrices
PriceMap(cachedPrices) ==
    [c \in {cachedPrices[i].id : i \in DOMAIN cachedPrices} |->
        NumToString((CHOOSE x \in Range(cachedPrices) : x.id = c).price)]

\* loadCachedPrices: getAllPrices() resolves, setPrices(priceMap)
HookLoadDone ==
    /\ hookLoad.phase = "getAll"
    /\ hookLoad' = [phase |-> "done", snap |-> <<>>]
    /\ IF mounted /\ Len(hookLoad.snap) > 0
       THEN LET newPrices == PriceMap(hookLoad.snap)
            IN  /\ prices' = newPrices
                /\ previousPrices' =
                     PreviousPricesEffect(newPrices, previousPrices, customCryptos)
                /\ priceHistory' = HistoryEffect(newPrices, priceHistory, clock)
       ELSE UNCHANGED <<prices, previousPrices, priceHistory>>
    /\ UNCHANGED <<isConnected, error, invalidAssets, errorCount, connVars, mounted,
                   cacheVars, customCryptos, hiddenCryptos, expandedId, listLoad,
                   tasks, clock, feedVars, apiVars, searchVars>>

\* a change of customCryptos to newCustom, with the render and the effects that
\* follow it: the connect effect, the previousPrices effect and the
\* invalidation effect
CustomChanged(newCustom, baseTasks, baseStore, delOk, connOk) ==
    LET spawn == IF invalidAssets # <<>>
                 THEN InvalidationTasks(invalidAssets, newCustom, delOk) ELSE {}
    IN  /\ spawn = {} => delOk
        /\ customCryptos' = newCustom
        /\ ConnectEffect(newCustom, connOk)
        /\ previousPrices' = PreviousPricesEffect(prices, previousPrices, newCustom)
        /\ tasks' = baseTasks \cup spawn
        /\ priceStore' = DeletePrices(baseStore, {t.id : t \in spawn}, delOk)

\* loadCustomCryptos: init() settles, getAllCustomCryptos() is requested
ListLoadInit ==
    /\ listLoad.phase = "init"
    /\ hookLoad.phase # "init"
    /\ IF storage = "ok"
       THEN /\ db' = "open" /\ connections' = connections + 1
            /\ listLoad' = [phase |-> "getCryptos", snap |-> GetAll(cryptoStore)]
       ELSE /\ UNCHANGED <<db, connections>>
            /\ listLoad' = [listLoad EXCEPT !.phase = "done"]
    /\ UNCHANGED <<hookVars, connVars, mounted, storage, priceStore, cryptoStore,
                   listVars, hookLoad, tasks, clock, feedVars, apiVars, searchVars>>

\* loadCustomCryptos: setCustomCryptos(savedCryptos), getAllPrices() is requested
ListLoadCryptos(delOk, connOk) ==
    /\ listLoad.phase = "getCryptos"
    /\ IF mounted /\ Len(listLoad.snap) > 0
       THEN CustomChanged(listLoad.snap, tasks, priceStore, delOk, connOk)
       ELSE /\ delOk /\ connOk
            /\ UNCHANGED <<customCryptos, connVars, error, previousPrices, tasks,
                           priceStore>>
    /\ listLoad' = [phase |-> "getPrices", snap |-> GetAll(priceStore')]
    /\ UNCHANGED <<prices, isConnected, invalidAssets, errorCount, mounted, db, connections,
                   storage, cryptoStore, hiddenCryptos, expandedId, priceHistory,
                   hookLoad, clock, feedVars, apiVars, searchVars>>

\* loadCustomCryptos: getAllPrices() resolves, setPriceHistory(historyFromCache)
ListLoadPrices ==
    /\ listLoad.phase = "getPrices"
    /\ listLoad' = [phase |-> "done", snap |-> <<>>]
    /\ priceHistory' = IF mounted /\ Len(listLoad.snap) > 0
                       THEN HistoryFromCache(listLoad.snap) ELSE priceHistory
    /\ UNCHANGED <<hookVars, connVars, mounted, cacheVars, customCryptos,
                   hiddenCryptos, expandedId, previousPrices, hookLoad, tasks, clock,
                   feedVars, apiVars, searchVars>>

----------------------------------------------------------------------------
(* Cache requests that had to wait for init() *)

\* the init() a suspended call awaited settles, and the call makes its request
TaskInit(t) ==
    /\ t \in tasks /\ t.phase = "init"
    /\ IF storage = "ok"
       THEN /\ db' = "open" /\ connections' = connections + 1
            /\ priceStore' =
                 CASE t.kind = "savePrice" /\ t.outcome = "ok" ->
                        Put(priceStore, t.id,
                            [id |-> t.id, price |-> t.price, timestamp |-> clock])
                   [] t.kind \in {"invalid", "delete"} /\ t.outcome = "ok" ->
                        Without(priceStore, t.id)
                   [] OTHER -> priceStore
            /\ cryptoStore' = IF t.kind = "add" /\ t.outcome = "ok"
                              THEN Put(cryptoStore, t.id, t.crypto) ELSE cryptoStore
            /\ tasks' = IF t.kind = "savePrice" THEN tasks \ {t}
                        ELSE (tasks \ {t}) \cup {[t EXCEPT !.phase = "issued"]}
       ELSE /\ tasks' = IF t.kind = "savePrice" THEN tasks \ {t}
                        ELSE (tasks \ {t})
                             \cup {[t EXCEPT !.phase = "issued", !.outcome = "fail"]}
            /\ UNCHANGED <<db, connections, priceStore, cryptoStore>>
    /\ UNCHANGED <<hookVars, connVars, mounted, storage, listVars, hookLoad, listLoad,
                   clock, feedVars, apiVars, searchVars>>

----------------------------------------------------------------------------
(* The invalidation effect's callback, after its await of deletePrice *)

FinishInvalid(t, ok2, delOk, connOk) ==
    /\ t \in tasks /\ t.kind = "invalid" /\ t.phase = "issued"
    /\ IF t.outcome = "ok" /\ mounted /\ (t.isCustom => ok2)
       THEN IF t.isCustom
            THEN \* deleteCustomCrypto, setCustomCryptos(filter), history cleared
                 /\ cryptoStore' = Without(cryptoStore, t.id)
                 /\ CustomChanged(RemoveCrypto(customCryptos, t.id), tasks \ {t},
                                  priceStore, delOk, connOk)
                 /\ priceHistory' = Without(priceHistory, t.id)
                 /\ UNCHANGED hiddenCryptos
            ELSE \* setHiddenCryptos(add), history cleared
                 /\ ok2 /\ delOk /\ connOk
                 /\ hiddenCryptos' = hiddenCryptos \cup {t.id}
                 /\ priceHistory' = Without(priceHistory, t.id)
                 /\ tasks' = tasks \ {t}
                 /\ UNCHANGED <<customCryptos, connVars, error, previousPrices,
                                priceStore, cryptoStore>>
       ELSE \* a rejected request: the catch only logs
            /\ delOk /\ connOk
            /\ (t.outcome = "ok" /\ t.isCustom) \/ ok2
            /\ cryptoStore' = IF t.outcome = "ok" /\ t.isCustom /\ ok2
                              THEN Without(cryptoStore, t.id) ELSE cryptoStore
            /\ tasks' = tasks \ {t}
            /\ UNCHANGED <<customCryptos, connVars, error, previousPrices, priceStore,
                           hiddenCryptos, priceHistory>>
    /\ UNCHANGED <<prices, isConnected, invalidAssets, errorCount, mounted, db, connections,
                   storage, expandedId, hookLoad, listLoad, clock, feedVars, apiVars, searchVars>>

----------------------------------------------------------------------------
(* User actions *)

UserTasks == {t \in tasks : t.kind \in {"add", "delete"}}

\* Math.max(...existingRanks, 0) + 1 of AddCryptoModal.handleSubmit
Max(S) == CHOOSE m \in S : \A x \in S : x <= m

NextRank_Count(existingRanks) == Len(existingRanks) + 1

NextRank(existingRanks) == Max(Range(existingRanks) \cup {0}) + 1

\* the modal submits the asset id: handleAddCrypto up to its await
StartAdd(id, ok) ==
    /\ mounted
    /\ Cardinality(UserTasks) < MaxTasks
    /\ Len(customCryptos) + Cardinality({t \in tasks : t.kind = "add"}) < MaxCustom
    /\ LET existingRanks == [i \in DOMAIN updatedCryptoData |-> updatedCryptoData[i].rank]
           crypto == [id |-> id, price |-> 0, change24h |-> Pct(0, 1),
                      rank |-> NextRank(existingRanks)]
       IN  /\ tasks' = tasks \cup {Task("add", id, FALSE, FALSE, crypto, 0, Outcome(ok))}
           /\ cryptoStore' = IF db = "open" /\ ok THEN Put(cryptoStore, id, crypto)
                             ELSE cryptoStore
    /\ UNCHANGED <<hookVars, connVars, mounted, db, connections, storage, priceStore, listVars,
                   hookLoad, listLoad, clock, feedVars, apiVars, searchVars>>

\* setCustomCryptos((prev) => [...prev, crypto]), in the try and in the catch
AddedCryptos_IfSaved(custom, t) ==
    IF t.outcome = "ok" THEN Append(custom, t.crypto) ELSE custom

AddedCryptos(custom, t) == Append(custom, t.crypto)

\* handleAddCrypto after its await: both the try and the catch add the asset
FinishAdd(t, delOk, connOk) ==
    /\ t \in tasks /\ t.kind = "add" /\ t.phase = "issued"
    /\ IF mounted
       THEN CustomChanged(AddedCryptos(customCryptos, t), tasks \ {t}, priceStore,
                          delOk, connOk)
       ELSE /\ delOk /\ connOk
            /\ tasks' = tasks \ {t}
            /\ UNCHANGED <<customCryptos, connVars, error, previousPrices, priceStore>>
    /\ UNCHANGED <<prices, isConnected, invalidAssets, errorCount, mounted, db, connections,
                   storage, cryptoStore, hiddenCryptos, expandedId, priceHistory,
                   hookLoad, listLoad, clock, feedVars, apiVars, searchVars>>

\* a click on the row of a displayed asset
toggleExpand(id) ==
    /\ mounted
    /\ id \in {updatedCryptoData[i].id : i \in DOMAIN updatedCryptoData}
    /\ expandedId' = IF expandedId = id THEN "null" ELSE id
    /\ UNCHANGED <<hookVars, connVars, mounted, cacheVars, customCryptos, hiddenCryptos,
                   previousPrices, priceHistory, asyncVars, clock, feedVars, apiVars, searchVars>>

\* the delete button of a displayed asset: handleDeleteCrypto up to its await
StartDelete(id, ok) ==
    /\ mounted
    /\ Cardinality(UserTasks) < MaxTasks
    /\ id \in {updatedCryptoData[i].id : i \in DOMAIN updatedCryptoData}
    /\ tasks' = tasks \cup {Task("delete", id, IsCustom(customCryptos, id),
                                 expandedId = id, NoCrypto, 0, Outcome(ok))}
    /\ priceStore' = DeletePrices(priceStore, {id}, ok)
    /\ UNCHANGED <<hookVars, connVars, mounted, db, connections, storage, cryptoStore, listVars,
                   hookLoad, listLoad, clock, feedVars, apiVars, searchVars>>

\* handleDeleteCrypto after its await of deletePrice
FinishDelete(t, ok2, delOk, connOk) ==
    /\ t \in tasks /\ t.kind = "delete" /\ t.phase = "issued"
    /\ LET priceDeleted == t.outcome = "ok"
           done == priceDeleted /\ (t.isCustom => ok2)
       IN  /\ (priceDeleted /\ t.isCustom) \/ ok2
           /\ cryptoStore' = IF priceDeleted /\ t.isCustom /\ ok2
                             THEN Without(cryptoStore, t.id) ELSE cryptoStore
           /\ IF mounted
              THEN /\ IF t.isCustom
                      THEN /\ CustomChanged(RemoveCrypto(customCryptos, t.id),
                                            tasks \ {t}, priceStore, delOk, connOk)
                           /\ UNCHANGED hiddenCryptos
                      ELSE /\ delOk /\ connOk
                           /\ hiddenCryptos' = hiddenCryptos \cup {t.id}
                           /\ tasks' = tasks \ {t}
                           /\ UNCHANGED <<customCryptos, connVars, error,
                                          previousPrices, priceStore>>
                   /\ expandedId' = IF t.wasExpanded THEN "null" ELSE expandedId
                   \* only the try branch clears the history
                   /\ priceHistory' = IF done THEN Without(priceHistory, t.id)
                                      ELSE priceHistory
              ELSE /\ delOk /\ connOk
                   /\ tasks' = tasks \ {t}
                   /\ UNCHANGED <<customCryptos, connVars, error, previousPrices,
                                  priceStore, hiddenCryptos, expandedId, priceHistory>>
    /\ UNCHANGED <<prices, isConnected, invalidAssets, errorCount, mounted, db, connections,
                   storage, hookLoad, listLoad, clock, feedVars, apiVars, searchVars>>

----------------------------------------------------------------------------
(* CryptoCacheService called directly, as cryptoCache.test.ts calls it.  A  *)
(* call is [n, op, id, arg, at]: its serial number, the method, the asset  *)
(* identifier, the price (savePrice) or maxAgeMs (clearOldPrices), and the *)
(* reading of the clock when it was made.  calls holds the calls suspended *)
(* at `await this.init()`; results is the sequence of settled calls.       *)

CacheOps == {"init", "savePrice", "getPrice", "getAllPrices", "clearOldPrices",
             "saveCustomCrypto", "getAllCustomCryptos", "deleteCustomCrypto",
             "deletePrice"}

\* request.onsuccess / request.onerror of indexedDB.open
InitOutcome_Swallowed(medium) == "resolved"

InitOutcome(medium) == IF medium = "ok" THEN "resolved" ELSE "rejected"

\* objectStore.put({id, price, timestamp: Date.now()})
PutPrice_NoTimestamp(store, id, price, now) == Put(store, id, [id |-> id, price |-> price, timestamp |-> 0])

PutPrice(store, id, price, now) ==
    Put(store, id, [id |-> id, price |-> price, timestamp |-> now])

\* objectStore.get(id), request.result || null
GetPrice(store, id) == IF Has(store, id) THEN store[id] ELSE JSNull

\* a call of clearOldPrices without an argument, and the maxAgeMs it runs with
NoArgument == -1

MaxAge(arg) == IF arg = NoArgument THEN DEFAULT_MAX_AGE ELSE arg

\* the identifiers whose record the cursor of clearOldPrices deletes
Stale_Inclusive(store, maxAgeMs, now) ==
    {k \in DOMAIN store : store[k].timestamp <= now - maxAgeMs}

Stale(store, maxAgeMs, now) ==
    {k \in DOMAIN store : store[k].timestamp < now - maxAgeMs}

UserCrypto(id) == [id |-> id, price |-> 0, change24h |-> Pct(0, 1), rank |-> 6]

\* objectStore.put(crypto) on the store keyed by id
PutCrypto_KeepFirst(store, crypto) ==
    IF Has(store, crypto.id) THEN store ELSE Put(store, crypto.id, crypto)

PutCrypto(store, crypto) == Put(store, crypto.id, crypto)

\* objectStore.delete(id) on the store keyed by id
DeletePrice_Clear(store, id) == EmptyMap

DeletePrice(store, id) == Without(store, id)

\* the request a method makes once this.db is set: its effect on the two
\* stores and the value its promise resolves with
Request(op, id, arg, now) ==
    CASE op = "savePrice" ->
            [prices |-> PutPrice(priceStore, id, arg, now), cryptos |-> cryptoStore,
             value |-> "undefined"]
      [] op = "getPrice" ->
            [prices |-> priceStore, cryptos |-> cryptoStore,
             value |-> GetPrice(priceStore, id)]
      [] op = "getAllPrices" ->
            [prices |-> priceStore, cryptos |-> cryptoStore, value |-> GetAll(priceStore)]
      [] op = "clearOldPrices" ->
            [prices |-> [k \in DOMAIN priceStore \ Stale(priceStore, MaxAge(arg), now) |->
                            priceStore[k]],
             cryptos |-> cryptoStore, value |-> "undefined"]
      [] op = "saveCustomCrypto" ->
            [prices |-> priceStore,
             cryptos |-> PutCrypto(cryptoStore,
                                   [UserCrypto(id) EXCEPT !.rank = IF arg = 0 THEN @ ELSE arg]),
             value |-> "undefined"]
      [] op = "getAllCustomCryptos" ->
            [prices |-> priceStore, cryptos |-> cryptoStore, value |-> GetAll(cryptoStore)]
      [] op = "deleteCustomCrypto" ->
            [prices |-> priceStore, cryptos |-> Without(cryptoStore, id),
             value |-> "undefined"]
      [] op = "deletePrice" ->
            [prices |-> DeletePrice(priceStore, id), cryptos |-> cryptoStore,
             value |-> "undefined"]
      [] OTHER ->
            [prices |-> priceStore, cryptos |-> cryptoStore, value |-> "undefined"]

\* the savePrice calls completed for each asset since its record was last
\* deleted or purged: their number, and the price and call time of the last
Recorded(rec, op, id, arg, at, now) ==
    CASE op = "savePrice" ->
            Put(rec, id, [n |-> (IF Has(rec, id) THEN rec[id].n ELSE 0) + 1,
                          price |-> arg, at |-> at])
      [] op = "deletePrice" -> Without(rec, id)
      [] op = "clearOldPrices" ->
            [k \in DOMAIN rec \ Stale(priceStore, MaxAge(arg), now) |-> rec[k]]
      [] OTHER -> rec

\* the body of a method after its `if (!this.db) await this.init()`: the
\* promise executor, run with the handle opened (the value of this.db)
Execute(c, opened, ok) ==
    IF c.op = "init"
    THEN /\ results' = Append(results, [call |-> c, result |-> "ok", value |-> "undefined"])
         /\ UNCHANGED <<priceStore, cryptoStore, recorded>>
    ELSE IF opened = "null"
    THEN /\ results' = Append(results, [call |-> c, result |-> "Database not initialized",
                                        value |-> "undefined"])
         /\ UNCHANGED <<priceStore, cryptoStore, recorded>>
    ELSE IF ~ok
    THEN /\ results' = Append(results, [call |-> c, result |-> "request.error",
                                        value |-> "undefined"])
         /\ UNCHANGED <<priceStore, cryptoStore, recorded>>
    ELSE LET r == Request(c.op, c.id, c.arg, clock)
         IN  /\ priceStore' = r.prices
             /\ cryptoStore' = r.cryptos
             /\ recorded' = Recorded(recorded, c.op, c.id, c.arg, c.at, clock)
             /\ results' = Append(results, [call |-> c, result |-> "ok", value |-> r.value])

\* a method of the service is called: init() always opens; any other method
\* awaits init() when this.db is null and else makes its request at once
CacheCall(op, id, arg, ok) ==
    /\ Cardinality(calls) + Len(results) < MaxCalls
    /\ LET c == [n |-> Cardinality(calls) + Len(results) + 1, op |-> op, id |-> id,
                 arg |-> arg, at |-> clock, opened |-> db]
       IN  IF op = "init" \/ db = "null"
           THEN /\ ok
                /\ calls' = calls \cup {c}
                /\ UNCHANGED <<results, recorded, priceStore, cryptoStore>>
           ELSE /\ Execute(c, db, ok)
                /\ UNCHANGED calls
    /\ UNCHANGED <<hookVars, connVars, mounted, db, connections, storage, listVars,
                   asyncVars, clock, feedVars, searchVars>>

\* the indexedDB.open request of a suspended call settles, and the call goes on
CacheOpen(c, ok) ==
    /\ c \in calls
    /\ calls' = calls \ {c}
    /\ IF InitOutcome(storage) = "resolved"
       THEN /\ db' = IF storage = "ok" THEN "open" ELSE db
            /\ connections' = IF storage = "ok" THEN connections + 1 ELSE connections
            /\ Execute(c, db', ok)
       ELSE /\ ok
            /\ results' = Append(results, [call |-> c, result |-> "open request.error",
                                           value |-> "undefined"])
            /\ UNCHANGED <<db, connections, priceStore, cryptoStore, recorded>>
    /\ UNCHANGED <<hookVars, connVars, mounted, storage, listVars, asyncVars, clock,
                   feedVars, searchVars>>

----------------------------------------------------------------------------
(* Catalog search of useCryptoSearch.  The state of the hook is [data,      *)
(* loading, error]; a list of assets is the sequence of their identifiers.  *)
(* A request in flight is [n, symbol]; a call that has returned is [n,      *)
(* symbol, requested, response, value].                                     *)

\* useState({data: [], loading: false, error: null})
NoSearch == [data |-> <<>>, loading |-> FALSE, error |-> "null"]

\* what fetch and response.json() can give: fetch rejects, a status that is
\* not OK, a body that is no JSON, a body without data, and lists of assets
Responses == {"rejected", "status 500", "invalid json", "no data", "[]",
              "[dogecoin]", "[dogecoin, dogelon]"}

\* data.data of a response whose body is read: undefined, or the list
Assets(response) ==
    CASE response = "[dogecoin]"          -> <<"dogecoin">>
      [] response = "[dogecoin, dogelon]" -> <<"dogecoin", "dogelon">>
      [] OTHER                            -> <<>>

\* searchCrypto after its await of fetch: the state it sets and the list it
\* returns
SearchOutcome_NotFoundIsNoError(response) ==
    IF response \in {"rejected", "invalid json"}
    THEN [state |-> [data |-> <<>>, loading |-> FALSE,
                     error |-> "Erro ao conectar com a API"], value |-> <<>>]
    ELSE IF response = "status 500"
    THEN [state |-> [data |-> <<>>, loading |-> FALSE,
                     error |-> "Erro ao buscar criptomoeda"], value |-> <<>>]
    ELSE [state |-> [data |-> Assets(response), loading |-> FALSE, error |-> "null"],
          value |-> Assets(response)]

SearchOutcome(response) ==
    IF response \in {"rejected", "invalid json"}
    THEN [state |-> [data |-> <<>>, loading |-> FALSE,
                     error |-> "Erro ao conectar com a API"], value |-> <<>>]
    ELSE IF response = "status 500"
    THEN [state |-> [data |-> <<>>, loading |-> FALSE,
                     error |-> "Erro ao buscar criptomoeda"], value |-> <<>>]
    ELSE IF response = "no data" \/ Len(Assets(response)) = 0
    THEN [state |-> [data |-> <<>>, loading |-> FALSE,
                     error |-> "Criptomoeda nao encontrada"], value |-> <<>>]
    ELSE [state |-> [data |-> Assets(response), loading |-> FALSE, error |-> "null"],
          value |-> Assets(response)]

\* searchCrypto(symbol) up to its await of fetch, or to its return when the
\* symbol is empty
searchCrypto(symbol) ==
    /\ Cardinality(fetches) + Len(returned) < MaxSearches
    /\ LET n == Cardinality(fetches) + Len(returned) + 1
       IN  IF symbol = ""
           THEN /\ result' = [data |-> <<>>, loading |-> FALSE, error |-> "null"]
                /\ returned' = Append(returned, [n |-> n, symbol |-> symbol,
                                                 requested |-> FALSE,
                                                 response |-> "none", value |-> <<>>])
                /\ UNCHANGED fetches
           ELSE /\ result' = [data |-> <<>>, loading |-> TRUE, error |-> "null"]
                /\ fetches' = fetches \cup {[n |-> n, symbol |-> symbol]}
                /\ UNCHANGED returned
    /\ UNCHANGED <<hookVars, connVars, mounted, cacheVars, listVars, asyncVars, clock,
                   feedVars, apiVars>>

\* the request of a call settles, and the call sets the state and returns
SearchSettles(f, response) ==
    /\ f \in fetches
    /\ fetches' = fetches \ {f}
    /\ result' = SearchOutcome(response).state
    /\ returned' = Append(returned, [n |-> f.n, symbol |-> f.symbol, requested |-> TRUE,
                                     response |-> response,
                                     value |-> SearchOutcome(response).value])
    /\ UNCHANGED <<hookVars, connVars, mounted, cacheVars, listVars, asyncVars, clock,
                   feedVars, apiVars>>

----------------------------------------------------------------------------
(* Initial states *)

CachedPrice(id, price, timestamp) == [id |-> id, price |-> price, timestamp |-> timestamp]

\* what an earlier session can have left in the prices store
PersistedPrices ==
    { EmptyMap,
      [k \in {"bitcoin"} |-> CachedPrice(k, 6767000, 0)],
      [k \in {"bitcoin", "dogecoin"} |-> CachedPrice(k, 6700000, 0)] }

\* what an earlier session can have left in the customCryptos store
PersistedCryptos ==
    { EmptyMap,
      [k \in {"dogecoin"} |->
          [id |-> k, price |-> 0, change24h |-> Pct(0, 1), rank |-> 6]] }

NoLoad == [phase |-> "done", snap |-> <<>>]

\* the component has mounted: state as constructed, first connect() made, both
\* startup loads awaiting init(); the stores hold one of P and one of C, and
\* the storage medium is in one of the states S
InitMount(P, C, S) ==
    /\ prices = EmptyMap /\ isConnected = FALSE /\ invalidAssets = <<>>
    /\ errorCount = EmptyMap
    /\ \E ok \in BOOLEAN :
        /\ sockets = IF ok THEN {[h |-> 1, url |-> WsUrl(<<>>), state |-> "CONNECTING",
                                  live |-> TRUE]}
                     ELSE {}
        /\ wsRef = IF ok THEN 1 ELSE 0
        /\ nextHandle = IF ok THEN 2 ELSE 1
        /\ error = IF ok THEN NoError ELSE "Erro ao criar conexao WebSocket"
    /\ timers = {} /\ reconnectTimeoutRef = 0 /\ mounted = TRUE
    /\ db = "null" /\ connections = 0 /\ storage \in S
    /\ priceStore \in P /\ cryptoStore \in C
    /\ customCryptos = <<>> /\ hiddenCryptos = {} /\ expandedId = "null"
    /\ previousPrices = EmptyMap /\ priceHistory = EmptyMap
    /\ hookLoad = [phase |-> "init", snap |-> <<>>]
    /\ listLoad = [phase |-> "init", snap |-> <<>>]
    /\ tasks = {} /\ clock = 0
    /\ recentValues = EmptyMap /\ threeInARow = {} /\ feedFirst = EmptyMap
    /\ malformed = 0 /\ lastSent = EmptyMap /\ lastFrame = EmptyMap
    /\ calls = {} /\ results = <<>> /\ recorded = EmptyMap
    /\ result = NoSearch /\ fetches = {} /\ returned = <<>>

\* a later state of the same session: both loads have found the stores empty,
\* the database is open and the first connection is being established
InitSteady ==
    /\ prices = EmptyMap /\ isConnected = FALSE /\ invalidAssets = <<>>
    /\ errorCount = EmptyMap /\ error = NoError
    /\ sockets = {[h |-> 1, url |-> WsUrl(<<>>), state |-> "CONNECTING", live |-> TRUE]}
    /\ wsRef = 1 /\ nextHandle = 2
    /\ timers = {} /\ reconnectTimeoutRef = 0 /\ mounted = TRUE
    /\ db = "open" /\ connections = 2 /\ storage = "ok"
    /\ priceStore = EmptyMap /\ cryptoStore = EmptyMap
    /\ customCryptos = <<>> /\ hiddenCryptos = {} /\ expandedId = "null"
    /\ previousPrices = EmptyMap /\ priceHistory = EmptyMap
    /\ hookLoad = NoLoad /\ listLoad = NoLoad
    /\ tasks = {} /\ clock = 0
    /\ recentValues = EmptyMap /\ threeInARow = {} /\ feedFirst = EmptyMap
    /\ malformed = 0 /\ lastSent = EmptyMap /\ lastFrame = EmptyMap
    /\ calls = {} /\ results = <<>> /\ recorded = EmptyMap
    /\ result = NoSearch /\ fetches = {} /\ returned = <<>>

----------------------------------------------------------------------------
(* Specifications.  Each explores the whole program state under the        *)
(* operations and the feed inputs that one group of properties is about.   *)

MaxHistory == 2     \* history entries per asset explored by Spec

\* the feed delivers a frame over keys K and values V, the cache writes it
\* causes having an outcome in W; cap bounds the exploration of the rolling
\* history (a cap above HISTORY_WINDOW never binds)
FeedMessage(K, V, W, cap, watch) ==
    \E s \in sockets, msg \in Messages(K, V), saveOk, delOk \in W :
        /\ WsMessage(s, msg, saveOk, delOk, watch)
        /\ \A c \in DOMAIN priceHistory' : Len(priceHistory'[c]) <= cap

Startup ==
    \/ HookLoadInit
    \/ HookLoadDone
    \/ ListLoadInit
    \/ \E delOk, connOk \in BOOLEAN : ListLoadCryptos(delOk, connOk)
    \/ ListLoadPrices
    \/ \E t \in tasks : TaskInit(t)

Invalidation ==
    \E t \in tasks, ok2, delOk, connOk \in BOOLEAN : FinishInvalid(t, ok2, delOk, connOk)

\* removal of one of ids, the cache's writes succeeding as W allows
Removal(ids, W) ==
    \/ \E id \in ids, ok \in W : StartDelete(id, ok)
    \/ \E t \in tasks, ok2, delOk \in W, connOk \in BOOLEAN :
            FinishDelete(t, ok2, delOk, connOk)

\* the merge layer: startup, feed frames for one asset (one of them with a value
\* that is no number), removal
Next ==
    \/ \E s \in sockets : WsOpen(s)
    \/ FeedMessage({"bitcoin"}, {"67000.0", "67670", "abc"}, {TRUE}, MaxHistory, FALSE)
    \/ Startup
    \/ Removal({"bitcoin"}, BOOLEAN)

Init == InitMount(PersistedPrices, {EmptyMap}, {"ok", "unavailable"})

Spec == Init /\ [][Next]_vars

\* the rolling window: as Spec, with the clock and the whole window
NextWindow ==
    \/ \E s \in sockets : WsOpen(s)
    \/ FeedMessage({"bitcoin"}, {"67000", "67670"}, {TRUE}, HISTORY_WINDOW + 1, FALSE)
    \/ Tick
    \/ Startup
    \/ Removal({"bitcoin"}, {TRUE})

InitWindow ==
    InitMount({[k \in {"bitcoin", "dogecoin"} |-> CachedPrice(k, 6700000, 0)]},
              {EmptyMap}, {"ok"})

SpecWindow == InitWindow /\ [][NextWindow]_vars

\* the feed client's message handling, over two vendor identifiers
NextFeed ==
    \/ \E s \in sockets : WsOpen(s)
    \/ FeedMessage({"bitcoin", "binance-coin"}, {"67000", JSNull, "null", "undefined"},
                   {TRUE}, HISTORY_WINDOW + 1, TRUE)

SpecFeed == InitSteady /\ [][NextFeed]_vars

\* the connection lifecycle, with the user adding and removing an asset
NextConn ==
    \/ \E s \in sockets : WsOpen(s)
    \/ \E s \in sockets : WsError(s)
    \/ \E s \in sockets : WsClose(s)
    \/ \E t \in timers, ok \in BOOLEAN : TimerFire(t, ok)
    \/ \E id \in SearchIds, ok \in BOOLEAN : StartAdd(id, ok)
    \/ \E t \in tasks, delOk, connOk \in BOOLEAN : FinishAdd(t, delOk, connOk)
    \/ \E id \in SearchIds, ok \in BOOLEAN : StartDelete(id, ok)
    \/ \E t \in tasks, ok2, delOk, connOk \in BOOLEAN : FinishDelete(t, ok2, delOk, connOk)
    \/ Unmount

SpecConn == InitSteady /\ [][NextConn]_vars

\* the cache service on its own: before the first call the database is not
\* open, and the storage medium can or cannot be opened
NextCache ==
    \/ \E op \in CacheOps, id \in {"bitcoin"}, arg \in {0, 6700000, 6767000} :
            /\ op = "savePrice" <=> arg # 0
            /\ CacheCall(op, id, arg, TRUE)
    \/ \E c \in calls : CacheOpen(c, TRUE)
    \/ Tick

InitCache == InitMount({EmptyMap}, {EmptyMap}, {"ok", "unavailable"})

SpecCache == InitCache /\ [][NextCache]_vars

\* the two stores under the service's writes, reads and purges, over the
\* samples an earlier session left a day ago: one just older than
\* DEFAULT_MAX_AGE at the start, one exactly that old
OldPrices ==
    [k \in {"bitcoin", "dogecoin"} |->
        CachedPrice(k, 6700000, IF k = "bitcoin" THEN -DEFAULT_MAX_AGE - 1
                                ELSE -DEFAULT_MAX_AGE)]

NextStores ==
    \/ \E id \in {"bitcoin", "dogecoin"} : CacheCall("savePrice", id, 6767000, TRUE)
    \/ \E arg \in {0, NoArgument} : CacheCall("clearOldPrices", "bitcoin", arg, TRUE)
    \/ \E id \in {"bitcoin", "dogecoin"}, rank \in {6, 7} :
            CacheCall("saveCustomCrypto", id, rank, TRUE)
    \/ \E id \in {"bitcoin", "dogecoin"} : CacheCall("deleteCustomCrypto", id, 0, TRUE)
    \/ CacheCall("getAllCustomCryptos", "bitcoin", 0, TRUE)
    \/ \E c \in calls : CacheOpen(c, TRUE)
    \/ Tick

InitStores == InitMount({OldPrices}, {EmptyMap}, {"ok"})

SpecStores == InitStores /\ [][NextStores]_vars

\* removal by the user, every cache request succeeding: of a catalog asset
\* the feed sends prices for and of the asset the user has added, with the
\* rows being expanded and collapsed
NextRemoval ==
    \/ \E s \in sockets : WsOpen(s)
    \/ FeedMessage({"solana"}, {"67000"}, {TRUE}, MaxHistory, FALSE)
    \/ \E id \in {"solana", "cardano"} : toggleExpand(id)
    \/ \E id \in SearchIds : StartAdd(id, TRUE)
    \/ \E t \in tasks : FinishAdd(t, TRUE, TRUE)
    \/ Removal(SearchIds \cup {"solana"}, {TRUE})

SpecRemoval == InitSteady /\ [][NextRemoval]_vars

\* identifiers the add dialog can submit: the catalog search returns any asset
\* of the vendor, those already tracked included
AddableIds == SearchIds \cup {"bitcoin"}

\* the tracked set under the user's additions and removals, with the
\* connection of the feed client that follows it
NextAssets ==
    \/ \E s \in sockets : WsOpen(s)
    \/ \E s \in sockets : WsClose(s)
    \/ \E t \in timers : TimerFire(t, TRUE)
    \/ \E id \in AddableIds : StartAdd(id, TRUE)
    \/ \E t \in tasks : FinishAdd(t, TRUE, TRUE)
    \/ Removal(AddableIds \cup {"solana"}, {TRUE})

SpecAssets == InitSteady /\ [][NextAssets]_vars

\* the start of a session: the first connection and the two startup loads,
\* over what an earlier session can have persisted
NextStartup ==
    \/ \E s \in sockets : WsOpen(s)
    \/ HookLoadInit
    \/ HookLoadDone
    \/ ListLoadInit
    \/ \E connOk \in BOOLEAN : ListLoadCryptos(TRUE, connOk)
    \/ ListLoadPrices

InitStartup == InitMount(PersistedPrices, PersistedCryptos, {"ok", "unavailable"})

SpecStartup == InitStartup /\ [][NextStartup]_vars

\* invalidation: the feed sends prices and nulls for a catalog asset and for
\* the asset the user adds, each connection for the identifiers of its URL
NextInvalid ==
    \/ \E s \in sockets : WsOpen(s)
    \/ \E s \in sockets, msg \in Messages({"solana", "dogecoin"}, {"67000", JSNull}) :
            /\ \A i \in DOMAIN msg : msg[i][1] \in Range(s.url)
            /\ WsMessage(s, msg, TRUE, TRUE, FALSE)
    \/ \E t \in tasks : FinishInvalid(t, TRUE, TRUE, TRUE)
    \/ \E id \in SearchIds : StartAdd(id, TRUE)
    \/ \E t \in tasks : FinishAdd(t, TRUE, TRUE)

SpecInvalid == InitSteady /\ [][NextInvalid]_vars

\* frames of every kind: well-formed ones for one asset, whose cache write
\* succeeds or fails, and payloads that are not an object
NextFrames ==
    \/ \E s \in sockets : WsOpen(s)
    \/ FeedMessage({"bitcoin"}, {"67000", "67670", JSNull}, BOOLEAN, MaxHistory, TRUE)
    \/ \E s \in sockets, p \in Payloads :
            /\ malformed < MaxMalformed
            /\ WsDropped(s, p)
    \/ \E s \in sockets, p \in Payloads, saveOk \in BOOLEAN :
            /\ malformed < MaxMalformed
            /\ ~Throws(p)
            /\ WsMessage(s, Entries(p), saveOk, TRUE, TRUE)

SpecFrames == InitSteady /\ [][NextFrames]_vars

\* the rolling history of one asset under a long run of price changes, in a
\* session whose startup loads found the stores empty
NextHistory ==
    \/ \E s \in sockets : WsOpen(s)
    \/ FeedMessage({"bitcoin"}, {"67000", "67670"}, BOOLEAN, HISTORY_WINDOW + 1, FALSE)
    \/ Tick

SpecHistory == InitSteady /\ [][NextHistory]_vars

\* the delivered prices of two assets under frames that mention one or both
NextPrices ==
    \/ \E s \in sockets : WsOpen(s)
    \/ FeedMessage({"bitcoin", "ethereum"}, {"67000", "67670", JSNull}, {TRUE},
                   MaxHistory, TRUE)

SpecPrices == InitSteady /\ [][NextPrices]_vars

\* the tallies of two assets under frames that mention one or both, across
\* closes and reconnects of the connection
NextTallies ==
    \/ \E s \in sockets : WsOpen(s)
    \/ FeedMessage({"bitcoin", "ethereum"}, {"67000", JSNull}, {TRUE}, MaxHistory, TRUE)
    \/ \E s \in sockets : WsClose(s)
    \/ \E t \in timers : TimerFire(t, TRUE)

SpecTallies == InitSteady /\ [][NextTallies]_vars

\* the prices store under writes, deletes and reads for two assets, both
\* stores holding what an earlier session left
NextWrites ==
    \/ \E id \in {"bitcoin", "dogecoin"} : CacheCall("savePrice", id, 6767000, TRUE)
    \/ \E id \in {"bitcoin", "dogecoin"} : CacheCall("deletePrice", id, 0, TRUE)
    \/ \E id \in {"bitcoin", "dogecoin"} : CacheCall("getPrice", id, 0, TRUE)
    \/ \E c \in calls : CacheOpen(c, TRUE)
    \/ Tick

InitWrites == InitMount({OldPrices}, PersistedCryptos \ {EmptyMap}, {"ok"})

SpecWrites == InitWrites /\ [][NextWrites]_vars

\* additions by the user, the user-asset store accepting or rejecting them,
\* with the connection of the feed client that follows the tracked set
NextAdd ==
    \/ \E s \in sockets : WsOpen(s)
    \/ \E s \in sockets : WsClose(s)
    \/ \E t \in timers : TimerFire(t, TRUE)
    \/ \E id \in SearchIds, ok \in BOOLEAN : StartAdd(id, ok)
    \/ \E t \in tasks, connOk \in BOOLEAN : FinishAdd(t, TRUE, connOk)
    \/ Tick

SpecAdd == InitSteady /\ [][NextAdd]_vars

\* the catalog search: calls with an empty and with a non-empty symbol, their
\* requests settling in any order with any response
NextSearch ==
    \/ \E symbol \in {"", "doge"} : searchCrypto(symbol)
    \/ \E f \in fetches, response \in Responses : SearchSettles(f, response)

SpecSearch == InitSteady /\ [][NextSearch]_vars

\* the rolling history of a removed asset: the feed sends prices for a
\* catalog asset and for another one, and the user removes the first
NextCleared ==
    \/ \E s \in sockets : WsOpen(s)
    \/ FeedMessage({"solana", "cardano"}, {"67000", "67670"}, {TRUE}, MaxHistory, TRUE)
    \/ Removal({"solana"}, {TRUE})

SpecCleared == InitSteady /\ [][NextCleared]_vars

----------------------------------------------------------------------------
(* Properties of the feed client's message handling (SpecFeed) *)

\* C1: an asset is in invalidAssets if and only if the feed has sent it three
\* invalid values (null, "null", "undefined") in a row with no valid value in
\* between, and an asset whose latest value was valid has tally 0.
C1_InvalidIffThreeConsecutive ==
    /\ Range(invalidAssets) = threeInARow
    /\ \A id \in DOMAIN recentValues :
        ~Last(recentValues[id]) => (Has(errorCount, id) /\ errorCount[id] = 0)

\* bitcoin has been reported after three invalid values in a row, while
\* binancecoin, sent two invalid values and then a valid one, has not
C1_Witness ==
    /\ "bitcoin" \in Range(invalidAssets)
    /\ Has(recentValues, "binancecoin")
    /\ recentValues["binancecoin"] = <<TRUE, TRUE, FALSE>>
    /\ "binancecoin" \notin Range(invalidAssets)

----------------------------------------------------------------------------
(* Properties of the connection lifecycle (SpecConn) *)

\* C2: once an effect instance has been cleaned up (unmount, or a superseded
\* subscription) none of its reconnect timers is pending and it makes no
\* connection attempt: every pending timer and every connecting socket
\* belongs to an instance that has not been cleaned up.
C2_NoReconnectAfterTeardown ==
    /\ \A t \in timers : t.live
    /\ \A s \in sockets : s.state = "CONNECTING" => s.live

\* C3: while the component is mounted the client never stops retrying and never
\* retries twice: whenever no connection is left, exactly one reconnect timer
\* is pending.
C3_EveryCloseRetriedOnce ==
    (mounted /\ sockets = {}) => Cardinality(timers) = 1

\* C4: at most one reconnect timer is pending and at most one connection is
\* connecting or open.
C4_SingleTimerSingleConnection ==
    /\ Cardinality(timers) <= 1
    /\ Cardinality({s \in sockets : s.state \in {"CONNECTING", "OPEN"}}) <= 1

----------------------------------------------------------------------------
(* Properties of the rolling history (SpecWindow) *)

\* C6: every asset's in-memory history has at most 10 entries, in ascending
\* timestamp order.
C6_HistoryBoundedAscending ==
    \A id \in DOMAIN priceHistory :
        /\ Len(priceHistory[id]) <= 10
        /\ \A i \in 1..Len(priceHistory[id]) - 1 :
            priceHistory[id][i].timestamp <= priceHistory[id][i + 1].timestamp

\* after the startup loads, the window of bitcoin is full and spans two
\* readings of the clock
C6_Witness ==
    /\ hookLoad.phase = "done" /\ listLoad.phase = "done"
    /\ Has(priceHistory, "bitcoin")
    /\ Len(priceHistory["bitcoin"]) = 10
    /\ priceHistory["bitcoin"][1].timestamp < priceHistory["bitcoin"][10].timestamp

----------------------------------------------------------------------------
(* Properties of the merge layer (Spec) *)

HasBaseline(prev, id) == Has(prev, id) /\ TruthyNum(prev[id])

\* C7: no two adjacent entries of an asset's history carry the same price.
C7_NoAdjacentEqualPrices ==
    \A id \in DOMAIN priceHistory :
        \A i \in 1..Len(priceHistory[id]) - 1 :
            priceHistory[id][i].price # priceHistory[id][i + 1].price

\* C8: for every displayed asset that has a baseline, the derived change is
\* (current - baseline) / baseline x 100 of the derived current price.
C8_ChangeFromBaseline ==
    \A i \in DOMAIN updatedCryptoData :
        LET d == updatedCryptoData[i]
        IN  HasBaseline(previousPrices, d.id) =>
                PctEq(d.change24h,
                      Pct((d.price - previousPrices[d.id]) * 100, previousPrices[d.id]))

RECURSIVE LastNumeric(_)
LastNumeric(h) ==
    IF h = <<>> THEN NaN
    ELSE IF Last(h).price # NaN THEN Last(h).price
    ELSE LastNumeric(SubSeq(h, 1, Len(h) - 1))

\* C10: the derived current price of a displayed asset is its live price if it
\* has one, else its most recent history price, else its catalog price; and
\* with neither a baseline nor a cached price its change is the catalog's.
C10_PricePriority ==
    \A c \in Range(allCryptos(customCryptos)) :
        c.id \notin hiddenCryptos =>
            LET d == Derive(c, prices, previousPrices, priceHistory)
                live == RealtimePrice(prices, c.id)
                past == IF Has(priceHistory, c.id) THEN LastNumeric(priceHistory[c.id])
                        ELSE NaN
            IN  /\ d.price = IF TruthyNum(live) THEN live
                             ELSE IF TruthyNum(past) THEN past ELSE c.price
                /\ (~HasBaseline(previousPrices, c.id) /\ ~TruthyNum(past)) =>
                        d.change24h = c.change24h

----------------------------------------------------------------------------
(* Properties of the cache service (SpecCache) *)

Min(a, b) == IF a <= b THEN a ELSE b

\* the samples getAllPrices returns for one asset
SamplesOf(store, id) == SelectSeq(GetAll(store), LAMBDA x : x.id = id)

\* C11: the cache holds, and getAllPrices returns, for each asset its most
\* recent min(n, 10) samples, n being the number of savePrice calls completed
\* for the asset since its samples were last deleted or purged.
C11_KeepsLastTenSamples ==
    \A id \in DOMAIN recorded \cup DOMAIN priceStore :
        Len(SamplesOf(priceStore, id))
            = Min(IF Has(recorded, id) THEN recorded[id].n ELSE 0, 10)

\* C12: after savePrice(id, price) with no later write for id, getPrice(id)
\* returns a sample with that id, exactly that price and a timestamp not
\* earlier than the time savePrice was called.
C12_SaveThenGetRoundTrip ==
    \A id \in DOMAIN recorded :
        /\ Has(priceStore, id)
        /\ GetPrice(priceStore, id).id = id
        /\ GetPrice(priceStore, id).price = recorded[id].price
        /\ GetPrice(priceStore, id).timestamp >= recorded[id].at

\* savePrice was called before the database was open and stored its sample at
\* a later reading of the clock; the getPrice that followed returned it
C12_Witness ==
    /\ Len(results) = 2
    /\ results[1].call.op = "savePrice" /\ results[1].result = "ok"
    /\ results[2].call.op = "getPrice" /\ results[2].result = "ok"
    /\ results[1].call.at >= 1
    /\ results[2].value.price = results[1].call.arg
    /\ results[2].value.timestamp >= results[1].call.at

\* C13: when the storage medium cannot be opened, the database is never open
\* and every call on the service, init included, is rejected with the error
\* of the open request, also when calls are made concurrently.
C13_UnavailableStorageFailsEveryCall ==
    storage = "unavailable" =>
        /\ db = "null" /\ connections = 0
        /\ priceStore = EmptyMap /\ cryptoStore = EmptyMap
        /\ \A i \in DOMAIN results : results[i].result = "open request.error"

\* two calls other than init, the second made while the first was awaiting
\* init(), have both been rejected
C13_Witness ==
    /\ storage = "unavailable"
    /\ calls = {} /\ Len(results) = 2
    /\ results[1].call.op = "savePrice" /\ results[2].call.op = "getAllPrices"
    /\ results[1].call.n = 2 /\ results[2].call.n = 1

\* C14: init() called while the database is open is a no-op: when such a call
\* settles, no connection has been opened to replace the handle the service
\* holds.
C14_InitWhileOpenIsNoOp ==
    [][\A c \in calls \ calls' : c.opened = "open" => connections' = connections]_vars

----------------------------------------------------------------------------
(* Properties of the tracked set (SpecAssets) *)

\* the ranks of the displayed assets, which the list hands to the add dialog
DisplayedRanks == {updatedCryptoData[i].rank : i \in DOMAIN updatedCryptoData}

\* C15: an asset submitted by the add dialog gets rank max(existing ranks, 0)
\* + 1, the existing ranks being those of the displayed assets: it is strictly
\* greater than each of them, it is 1 when there is none and one above the
\* greatest otherwise; [1, 2, 3, 10, 15] gives 16 and [] gives 1.
C15_RankIsMaxPlusOne ==
    [][/\ NextRank(<<1, 2, 3, 10, 15>>) = 16
       /\ NextRank(<<>>) = 1
       /\ \A t \in tasks' \ tasks :
            t.kind = "add" =>
                /\ \A r \in DisplayedRanks : t.crypto.rank > r
                /\ IF DisplayedRanks = {} THEN t.crypto.rank = 1
                   ELSE t.crypto.rank - 1 \in DisplayedRanks]_vars

\* an asset was added after the catalog's last asset had been removed: it got
\* the rank above the greatest displayed one, not the number of assets plus one
C15_Witness ==
    /\ "solana" \in hiddenCryptos
    /\ \E t \in tasks : t.kind = "add" /\ t.crypto.rank = 5

NoDuplicates(seq) == \A i, j \in DOMAIN seq : i # j => seq[i] # seq[j]

\* C16: no identifier occurs more than once in the tracked set (the catalog
\* followed by the user's assets) or in the identifier list of the feed URL.
C16_NoDuplicateIdentifiers ==
    /\ NoDuplicates([i \in DOMAIN allCryptos(customCryptos) |->
                        allCryptos(customCryptos)[i].id])
    /\ NoDuplicates(WsUrl(customCryptos))

\* the feed identifiers of the tracked set: the catalog's and the user's
\* assets, without the hidden ones
TrackedIds ==
    SelectSeq(WsUrl(customCryptos), LAMBDA k : InternalId(k) \notin hiddenCryptos)

\* the connections a step opens
Opened == {s \in sockets' : \A old \in sockets : old.h # s.h}

\* C19: a step that changes the tracked set opens a fresh connection, and
\* every connection a step opens has the identifier list of the tracked set
\* as it is after that step.
C19_ConnectionFollowsTrackedSet ==
    [][/\ TrackedIds' # TrackedIds => Opened # {}
       /\ \A s \in Opened : s.url = TrackedIds']_vars

\* C19, for the user's own assets only: every connection a step opens has the
\* identifier list of the catalog followed by the user's assets, as they are
\* after that step.
C19_OnlyCurrentListIsConnected ==
    [][\A s \in Opened : s.url = WsUrl(customCryptos')]_vars

----------------------------------------------------------------------------
(* Properties of the start of a session (SpecStartup) *)

\* C20: while the first connection of the session exists, the cache has been
\* initialized, both startup loads have completed, and the connection is
\* against the catalog followed by the persisted user assets.
C20_FirstConnectionAfterStartup ==
    \A s \in sockets :
        s.h = 1 =>
            /\ db = "open"
            /\ hookLoad.phase = "done" /\ listLoad.phase = "done"
            /\ s.url = defaultAssetIds \o [i \in DOMAIN GetAll(cryptoStore) |->
                                              GetAll(cryptoStore)[i].id]

----------------------------------------------------------------------------
(* Properties of invalidation (SpecInvalid) *)

\* the invalidation callbacks that a step completes
Processed == {t \in tasks \ tasks' : t.kind = "invalid" /\ t.phase = "issued"}

DisplayedIds == {updatedCryptoData[i].id : i \in DOMAIN updatedCryptoData}

\* C17: when the invalidation of x has been processed, the cache holds no
\* sample for x, x has no rolling history, a user-added x is in neither the
\* user-asset store nor the tracked set, and a catalog x is hidden and not in
\* the derived output while its catalog entry exists.
C17_InvalidationRemovesAsset ==
    [][\A t \in Processed :
        /\ ~Has(priceStore', t.id)
        /\ ~Has(priceHistory', t.id)
        /\ t.id \notin StaticIds =>
                ~Has(cryptoStore', t.id) /\ ~IsCustom(customCryptos', t.id)
        /\ t.id \in StaticIds =>
                /\ t.id \in hiddenCryptos'
                /\ t.id \notin DisplayedIds'
                /\ t.id \in IdsOf(cryptoData)]_vars

\* C18: once an identifier is marked invalid, no connection opened from then
\* on has it in its identifier list: a step that processes an invalidation
\* leaves a current connection without the identifier, and a step that opens
\* a connection opens it without the identifiers marked invalid.
C18_ConnectionsExcludeInvalidated ==
    [][/\ \A t \in Processed : \A s \in sockets' :
            s.h = wsRef' => \A k \in Range(s.url) : InternalId(k) # t.id
       /\ \A s \in Opened : \A k \in Range(s.url) :
            InternalId(k) \notin Range(invalidAssets')]_vars

----------------------------------------------------------------------------
(* Properties of the connection's error handling (SpecConn) *)

\* C21: a step in which new WebSocket(WS_URL) throws (the creation error
\* becomes the reported error) leaves the client disconnected and arms a
\* retry timer.
C21_FailedConnectIsRetried ==
    [][(error' = "Erro ao criar conexao WebSocket" /\ error' # error) =>
            /\ isConnected' = FALSE
            /\ \E t \in timers' : \A old \in timers : old.h # t.h]_vars

----------------------------------------------------------------------------
(* Properties of the handling of single frames (SpecFrames) *)

\* C22: a frame whose payload is not an identifier-to-value object is dropped:
\* the connection and its state, the delivered prices, the tallies, the
\* invalidated list and the cache are as they were, and no cache write waits.
C22_MalformedFrameIsDropped ==
    [][malformed' # malformed =>
            UNCHANGED <<sockets, isConnected, prices, errorCount, invalidAssets,
                        priceStore, tasks>>]_vars

\* C23: every price delivered to the subscribers parses as a float.
C23_OnlyParsedFloatsDelivered ==
    \A id \in DOMAIN prices : ParseFloat(prices[id]) # NaN

\* C24: the invalidated list holds no identifier twice, and a frame that
\* brings an asset's tally to 3 or beyond delivers no price for that asset.
C24_InvalidListedOnce ==
    [][/\ NoDuplicates(invalidAssets')
       /\ \A id \in DOMAIN errorCount' :
            (/\ errorCount'[id] >= ERROR_THRESHOLD
             /\ ~(Has(errorCount, id) /\ errorCount[id] = errorCount'[id])) =>
                /\ Has(prices', id) <=> Has(prices, id)
                /\ Has(prices, id) => prices'[id] = prices[id]]_vars

\* an asset already listed as invalid has been sent a further invalid value
\* after a price had been delivered for it
C24_Witness ==
    /\ invalidAssets = <<"bitcoin">>
    /\ Has(errorCount, "bitcoin") /\ errorCount["bitcoin"] = ERROR_THRESHOLD + 1
    /\ Has(prices, "bitcoin")

----------------------------------------------------------------------------
(* Properties of the two stores (SpecStores) *)

\* the call that a step settles, if it is a successful call of op
Settles(op) ==
    /\ Len(results') = Len(results) + 1
    /\ Last(results').call.op = op
    /\ Last(results').result = "ok"

RECURSIVE SavedCryptos(_)
SavedCryptos(rs) ==
    IF rs = <<>> THEN EmptyMap
    ELSE LET before == SavedCryptos(SubSeq(rs, 1, Len(rs) - 1))
             c == Last(rs).call
         IN  CASE Last(rs).result = "ok" /\ c.op = "saveCustomCrypto" ->
                    [k \in DOMAIN before \cup {c.id} |->
                        IF k = c.id THEN c.arg ELSE before[k]]
               [] Last(rs).result = "ok" /\ c.op = "deleteCustomCrypto" ->
                    [k \in DOMAIN before \ {c.id} |-> before[k]]
               [] OTHER -> before

\* C26: getAllCustomCryptos returns exactly one record for each identifier
\* saved and not deleted afterwards, and it is the record saved last.
C26_UserAssetsUpsert ==
    /\ Len(GetAll(cryptoStore)) = Cardinality(DOMAIN SavedCryptos(results))
    /\ \A k \in DOMAIN SavedCryptos(results) :
            /\ Len(SelectSeq(GetAll(cryptoStore), LAMBDA r : r.id = k)) = 1
            /\ \A i \in DOMAIN GetAll(cryptoStore) :
                    GetAll(cryptoStore)[i].id = k =>
                        GetAll(cryptoStore)[i].rank = SavedCryptos(results)[k]
    /\ \A i \in DOMAIN results :
            (results[i].call.op = "getAllCustomCryptos" /\ results[i].result = "ok") =>
                /\ Len(results[i].value)
                        = Cardinality(DOMAIN SavedCryptos(SubSeq(results, 1, i)))
                /\ \A n \in DOMAIN results[i].value :
                        /\ Has(SavedCryptos(SubSeq(results, 1, i)), results[i].value[n].id)
                        /\ results[i].value[n].rank
                                = SavedCryptos(SubSeq(results, 1, i))[results[i].value[n].id]

\* an asset saved twice is stored once, as the record saved last
C26_Witness ==
    /\ Len(results) = 2
    /\ results[1].call.op = "saveCustomCrypto" /\ results[1].call.arg = 6
    /\ results[2].call.op = "saveCustomCrypto" /\ results[2].call.arg = 7
    /\ results[1].call.id = "dogecoin" /\ results[2].call.id = "dogecoin"
    /\ Len(GetAll(cryptoStore)) = 1 /\ GetAll(cryptoStore)[1].rank = 7

----------------------------------------------------------------------------
(* Properties of removal by the user (SpecRemoval) *)

\* the removals that a step completes
Removed == {t \in tasks \ tasks' : t.kind = "delete" /\ t.phase = "issued"}

\* C27: when the removal of x completes, the cache holds no sample for x, x
\* has no rolling history, a user-added x is in neither the user-asset store
\* nor the tracked set, a catalog x is hidden, and the expanded view is
\* collapsed if it showed x and is as it was otherwise.
C27_RemovalCleansUpAndCollapses ==
    [][\A t \in Removed :
        /\ ~Has(priceStore', t.id)
        /\ ~Has(priceHistory', t.id)
        /\ t.id \notin StaticIds =>
                ~Has(cryptoStore', t.id) /\ ~IsCustom(customCryptos', t.id)
        /\ t.id \in StaticIds => t.id \in hiddenCryptos'
        /\ expandedId' = IF expandedId = t.id THEN "null" ELSE expandedId]_vars

\* C30: the in-memory cleanup does not depend on the cache: when the removal
\* or the invalidation of x completes while the component is mounted, whether
\* or not its cache requests succeeded, a user-added x has left the tracked
\* set, a catalog x is hidden, and x has no rolling history.
C30_CleanupDespiteCacheFailure ==
    [][mounted =>
        \A t \in Removed \cup Processed :
            /\ ~Has(priceHistory', t.id)
            /\ t.id \notin StaticIds => ~IsCustom(customCryptos', t.id)
            /\ t.id \in StaticIds => t.id \in hiddenCryptos']_vars

----------------------------------------------------------------------------
(* Properties of the connection state (SpecConn) *)

\* the state of the client's connection: that of the socket wsRef refers to
ConnState ==
    IF \E s \in sockets : s.h = wsRef /\ s.state = "CONNECTING" THEN "Connecting"
    ELSE IF \E s \in sockets : s.h = wsRef /\ s.state = "OPEN" THEN "Connected"
    ELSE "Disconnected"

\* the moves of the connection state within one subscription
ConnMoves ==
    \/ ConnState' = ConnState
    \/ ConnState = "Connecting" /\ ConnState' = "Connected"
    \/ ConnState \in {"Connecting", "Connected"} /\ ConnState' = "Disconnected"
    \/ /\ ConnState = "Disconnected" /\ ConnState' = "Connecting"
       /\ \E t \in timers : t \notin timers'

\* C28: while the subscription stays the same the connection state moves only
\* Connecting -> Connected, Connecting/Connected -> Disconnected and, when a
\* reconnect timer fires, Disconnected -> Connecting; a mounted client that is
\* Disconnected has a close event or a reconnect timer pending; after shutdown
\* no timer is pending and no connection is connecting or open.
C28_ConnectionStateMachine ==
    [][/\ (mounted' /\ customCryptos' = customCryptos) => ConnMoves
       /\ (mounted' /\ ConnState' = "Disconnected") =>
                timers' # {} \/ \E s \in sockets' : s.state = "CLOSING"
       /\ ~mounted' =>
                /\ timers' = {}
                /\ \A s \in sockets' : s.state = "CLOSING"]_vars

----------------------------------------------------------------------------
(* Properties of the best-effort cache write (SpecFrames) *)

\* C29: whether or not the cache write of a valid update succeeds, the update
\* is delivered and the asset's tally is reset: every asset whose last value
\* sent parses as a price has that value as its delivered price and a tally
\* of 0, and the connection that received it is open.
C29_DeliveryDoesNotAwaitCache ==
    \A id \in DOMAIN lastSent :
        ParseFloat(lastSent[id]) # NaN =>
            /\ Has(prices, id) /\ prices[id] = lastSent[id]
            /\ Has(errorCount, id) /\ errorCount[id] = 0
            /\ isConnected
            /\ \E s \in sockets : s.h = wsRef /\ s.state = "OPEN"

\* the price sent last has been delivered after an invalid value, while the
\* cache, its write having failed, holds no sample of the asset
C29_Witness ==
    /\ Has(lastSent, "bitcoin") /\ lastSent["bitcoin"] = "67670"
    /\ Has(prices, "bitcoin") /\ prices["bitcoin"] = "67670"
    /\ Has(recentValues, "bitcoin") /\ Len(recentValues["bitcoin"]) = 2
    /\ recentValues["bitcoin"][1]
    /\ db = "open" /\ ~Has(priceStore, "bitcoin")

----------------------------------------------------------------------------
(* Properties of adding an asset (SpecAdd) *)

\* the additions that a step completes
Added == {t \in tasks \ tasks' : t.kind = "add" /\ t.phase = "issued"}

\* C31: a saveCustomCrypto that the user-asset store accepts leaves the asset
\* in the store; and when the addition of an asset completes while the
\* component is mounted, whether or not the store accepted it, the asset has
\* been appended to the tracked set, once, and a connection for the new
\* identifier list has been attempted.
C31_AddSurvivesPersistFailure ==
    [][/\ \A t \in tasks' \ tasks :
            (t.kind = "add" /\ t.phase = "issued" /\ t.outcome = "ok") =>
                Has(cryptoStore', t.id) /\ cryptoStore'[t.id] = t.crypto
       /\ mounted =>
            \A t \in Added :
                /\ customCryptos' = Append(customCryptos, t.crypto)
                /\ Len(SelectSeq(customCryptos', LAMBDA c : c.id = t.id))
                        = Len(SelectSeq(customCryptos, LAMBDA c : c.id = t.id)) + 1
                /\ \/ \E s \in Opened : s.url = WsUrl(customCryptos')
                   \/ error' = "Erro ao criar conexao WebSocket"]_vars

\* dogecoin is tracked and connected for, while the user-asset store, which
\* rejected it, does not hold it
C31_Witness ==
    /\ IsCustom(customCryptos, "dogecoin")
    /\ ~Has(cryptoStore, "dogecoin")
    /\ tasks = {}
    /\ \E s \in sockets : s.h = wsRef /\ s.url = WsUrl(customCryptos)

----------------------------------------------------------------------------
(* Properties of eviction from the rolling history (SpecHistory) *)

\* history h has become h2 by one new sample at the end, the oldest sample
\* leaving if and only if h already held 10
OldestFirst(h, h2, price, now) ==
    /\ h2 # <<>>
    /\ Last(h2) = [timestamp |-> now, price |-> price]
    /\ h = <<>> \/ Last(h).price # price
    /\ h2 = IF Len(h) < 10 THEN Append(h, Last(h2)) ELSE Append(Tail(h), Last(h2))

----------------------------------------------------------------------------
(* Properties of the delivered price map (SpecPrices) *)

----------------------------------------------------------------------------
(* Properties of the tallies (SpecTallies) *)

\* C40: a step changes the tally of an asset only when the frame of that step
\* has the asset as a key, to 0 for a valid value and by one for an invalid
\* one; a frame that does not mention the asset, and the close and the
\* re-establishment of the connection, leave its tally as it was.
C40_TalliesArePerAsset ==
    [][/\ \A id \in DOMAIN errorCount : Has(errorCount', id)
       /\ \A id \in DOMAIN errorCount' :
            (Has(errorCount, id) /\ errorCount'[id] = errorCount[id])
            \/ /\ Has(lastFrame', id)
               /\ errorCount'[id] =
                    IF IsInvalidValue(lastFrame'[id])
                    THEN (IF Has(errorCount, id) THEN errorCount[id] ELSE 0) + 1
                    ELSE 0
       /\ sockets' # sockets => errorCount' = errorCount]_vars

\* bitcoin has a tally of 2 after a frame that carried a price for ethereum
\* only, received on a connection established after a reconnect
C40_Witness ==
    /\ Has(errorCount, "bitcoin") /\ errorCount["bitcoin"] = 2
    /\ Has(errorCount, "ethereum") /\ errorCount["ethereum"] = 0
    /\ lastFrame = [k \in {"ethereum"} |-> "67000"]
    /\ Has(prices, "ethereum") /\ ~Has(prices, "bitcoin")
    /\ \E s \in sockets : s.h = wsRef /\ s.state = "OPEN" /\ s.h > 1

----------------------------------------------------------------------------
(* Properties of the writes to the prices store (SpecWrites) *)

\* the samples of every asset but id are the same in the two stores
SameButFor(store, store2, id) ==
    /\ DOMAIN store \ {id} = DOMAIN store2 \ {id}
    /\ \A k \in DOMAIN store \ {id} : store2[k] = store[k]

\* C34: a savePrice(x, p) that settles has stored p for x and a deletePrice(x)
\* that settles has left no sample of x, so that getPrice(x) returns null;
\* both leave every other asset's samples and the user-asset store as they
\* were.
C34_WritesArePerAsset ==
    [][/\ Settles("savePrice") =>
            /\ Has(priceStore', Last(results').call.id)
            /\ priceStore'[Last(results').call.id].price = Last(results').call.arg
            /\ SameButFor(priceStore, priceStore', Last(results').call.id)
            /\ cryptoStore' = cryptoStore
       /\ Settles("deletePrice") =>
            /\ ~Has(priceStore', Last(results').call.id)
            /\ GetPrice(priceStore', Last(results').call.id) = JSNull
            /\ SameButFor(priceStore, priceStore', Last(results').call.id)
            /\ cryptoStore' = cryptoStore
       /\ (Settles("getPrice") /\ ~Has(priceStore, Last(results').call.id)) =>
            Last(results').value = JSNull]_vars

\* deletePrice(bitcoin) has settled and the getPrice(bitcoin) that followed
\* returned null, while the sample of dogecoin and the user asset are stored
C34_Witness ==
    /\ Len(results) = 2
    /\ results[1].call.op = "deletePrice" /\ results[1].call.id = "bitcoin"
    /\ results[2].call.op = "getPrice" /\ results[2].call.id = "bitcoin"
    /\ results[1].result = "ok" /\ results[2].result = "ok"
    /\ results[2].value = JSNull
    /\ ~Has(priceStore, "bitcoin")
    /\ Has(priceStore, "dogecoin") /\ priceStore["dogecoin"] = OldPrices["dogecoin"]
    /\ Has(cryptoStore, "dogecoin")

----------------------------------------------------------------------------
(* Properties of the catalog search (SpecSearch) *)

\* C35: a call of searchCrypto that returns leaves loading false; with an
\* empty symbol it has made no request and leaves data [] and no error; after
\* a response that is not OK, an empty or missing list, or a failure of the
\* request it leaves data [] and an error and returns []; only after a
\* non-empty list it leaves that list as data, no error, and returns it.  A
\* call with a non-empty symbol always makes its request.
C35_SearchAlwaysSettles ==
    [][/\ Len(returned') > Len(returned) =>
            LET r == Last(returned')
            IN  /\ Len(returned') = Len(returned) + 1
                /\ result'.loading = FALSE
                /\ r.symbol = "" =>
                        /\ ~r.requested /\ fetches' = fetches
                        /\ result'.data = <<>> /\ result'.error = "null"
                        /\ r.value = <<>>
                /\ r.symbol # "" => r.requested
                /\ (r.requested /\ r.response \in {"[dogecoin]", "[dogecoin, dogelon]"}) =>
                        /\ result'.data = Assets(r.response) /\ result'.data # <<>>
                        /\ result'.error = "null"
                        /\ r.value = result'.data
                /\ (r.requested /\ r.response \notin {"[dogecoin]", "[dogecoin, dogelon]"}) =>
                        /\ result'.data = <<>> /\ result'.error # "null"
                        /\ r.value = <<>>
       /\ \A f \in fetches' \ fetches : f.symbol # ""
       /\ fetches' = {} => result'.loading = FALSE]_vars

\* a search that found nothing has returned [] with an error, after a search
\* that failed at the network
C35_Witness ==
    /\ Len(returned) = 2 /\ fetches = {}
    /\ returned[1].response = "rejected" /\ returned[2].response = "[]"
    /\ result = [data |-> <<>>, loading |-> FALSE, error |-> "Criptomoeda nao encontrada"]

----------------------------------------------------------------------------
(* Properties of the startup loads under a live feed (Spec) *)

\* C36: the startup loads lose no live observation: the step in which the
\* hook's cache load completes leaves every price delivered before it as it
\* was, and the step in which the list's cache load completes, when the
\* history until then holds live entries only, leaves each asset's history
\* with every one of its entries.
C36_LoadKeepsLiveObservations ==
    [][/\ (hookLoad.phase = "getAll" /\ hookLoad'.phase = "done") =>
            \A id \in DOMAIN prices : Has(prices', id) /\ prices'[id] = prices[id]
       /\ (listLoad.phase = "getPrices" /\ listLoad'.phase = "done"
                /\ hookLoad.phase # "done") =>
            \A id \in DOMAIN priceHistory :
                /\ Has(priceHistory', id)
                /\ Range(priceHistory[id]) \subseteq Range(priceHistory'[id])]_vars

----------------------------------------------------------------------------
(* Properties of the history of a removed asset (SpecCleared) *)

\* C37: a removed asset whose history has been cleared gets a history entry
\* only in a step whose frame carries a valid value for that asset itself.
C37_ClearedHistoryStaysEmpty ==
    [][\A id \in hiddenCryptos :
        (~Has(priceHistory, id) /\ Has(priceHistory', id)) =>
            Has(lastFrame', id) /\ ~IsInvalidValue(lastFrame'[id])]_vars

----------------------------------------------------------------------------
(* Properties of the identifier list of a connection (SpecConn) *)

\* C38: no connection is attempted against an identifier list older than the
\* tracked set: every connection being established is for the identifier list
\* of the tracked set as it is now.
C38_AttemptsUseCurrentList ==
    \A s \in sockets :
        s.state = "CONNECTING" => s.url = WsUrl(customCryptos)

----------------------------------------------------------------------------
(* Properties of the connection indicator (SpecConn) *)

\* the sockets of which a step delivers an event: open, error or close
Delivered(alive) ==
    {s \in sockets : s.live = alive /\ \A s2 \in sockets' : s2.h = s.h => s2.state # s.state}

\* C39: after every step the indicator of a mounted component is true only if
\* the socket the client refers to is open; a step that delivers an event of a socket whose effect
\* instance has been cleaned up leaves the indicator and the reported error as
\* they were; a step in which a socket opens while the component is mounted
\* sets the indicator and clears the reported error.
C39_IndicatorFollowsActiveConnection ==
    [][/\ (mounted' /\ isConnected') =>
            \E s \in sockets' : s.h = wsRef' /\ s.state = "OPEN"
       /\ Delivered(FALSE) # {} => UNCHANGED <<isConnected, error>>
       /\ (mounted /\ \E s \in sockets, s2 \in sockets' :
                s.h = s2.h /\ s.state = "CONNECTING" /\ s2.state = "OPEN") =>
            isConnected' /\ error' = NoError]_vars

====
